---- MODULE Spec2Model ----
(***************************************************************************)
(* A model of the object writer of lib/ObjWriter/objwriter.cpp: the        *)
(* ObjectWriter session (FrameOpened, FuncId, DebugVarInfos,               *)
(* CustomSections) and the extern "C" entry points that drive the MC       *)
(* streamer.                                                               *)
(*                                                                         *)
(* The streamer is a recorder: every call the source makes on OST appends  *)
(* one item to the stream of the section that is current at that moment    *)
(* (the stream NoSection before the first SwitchSection).  A section's     *)
(* stream is what the object file will hold in that section, in order.     *)
(*                                                                         *)
(* assert(...) is the source's fatal error: a failed assertion aborts the  *)
(* process at that statement.  What the call wrote before the failed       *)
(* assertion stays written; nothing after it runs (status = "aborted").    *)
(***************************************************************************)
EXTENDS Integers, Sequences, FiniteSets, TLC

VARIABLES
    format,          \* object file format of the target triple (MOFI->getObjectFileType())
    FrameOpened,     \* ObjectWriter::FrameOpened
    FuncId,          \* ObjectWriter::FuncId
    DebugVarInfos,   \* ObjectWriter::DebugVarInfos, the pending variable list
    CustomSections,  \* ObjectWriter::CustomSections, a map from name to section
    curSection,      \* the streamer's current section
    out,             \* section -> the items emitted into it, in order
    nextTemp,        \* number of temporary symbols created (OutContext.createTempSymbol)
    hasInstructions, \* the sections marked as holding instructions (MCSection::HasInstructions)
    status,          \* "live", or "aborted" after a failed assertion
    last,            \* the call just made: [op, a (its arguments), res]
    ncalls           \* number of entry-point calls made so far

vars == <<format, FrameOpened, FuncId, DebugVarInfos, CustomSections, curSection,
          out, nextTemp, hasInstructions, status, last, ncalls>>

-----------------------------------------------------------------------------
(* Bounds of the exploration. *)

\* calls per session when every entry point may be called
MaxCalls == 3
\* calls per session of one component's entry points alone
MaxCFICalls == 4
MaxSectionCalls == 4
MaxSymCalls == 2
MaxUnwindCalls == 3
MaxVarCalls == 3
MaxDebugCalls == 4

-----------------------------------------------------------------------------
(* Sections and symbols. *)

NoSection == "<none>"
TextSection == ".text"
DataSection == ".data"
ReadOnlySection == ".rdata"
XDataSection == ".xdata"
PDataSection == ".pdata"
COFFDebugSymbolsSection == ".debug$S"

\* names a front end passes to CreateDataSection / SwitchSection
CustomNames == {"mydata", "other"}
WellKnownNames == {"text", "data", "rdata"}

\* the section object a custom name denotes in the MCContext
CustomSectionOf(SectionName) == "custom:" \o SectionName

Sections ==
    {NoSection, TextSection, DataSection, ReadOnlySection, XDataSection,
     PDataSection, COFFDebugSymbolsSection}
    \cup {CustomSectionOf(n) : n \in CustomNames}

Formats == {"COFF", "ELF", "MachO"}

\* a named symbol (getOrCreateSymbol: same name, same symbol) and a temporary one
NamedSymbol(SymbolName) == [name |-> SymbolName]
TempSymbol(i) == [tmp |-> i]

-----------------------------------------------------------------------------
(* Symbol expressions (MCExpr). *)

SymbolRefExpr(sym, variant) == [e |-> "ref", sym |-> sym, variant |-> variant]
ConstantExpr(c) == [e |-> "const", c |-> c]
BinaryAdd(l, r) == [e |-> "add", l |-> l, r |-> r]
BinarySub(l, r) == [e |-> "sub", l |-> l, r |-> r]

-----------------------------------------------------------------------------
(* The streamer: a state [cur, out, tmp] threaded through one entry point. *)

OST == [cur |-> curSection, out |-> out, tmp |-> nextTemp]

StSwitchSection(st, sec) == [st EXCEPT !.cur = sec]
StEmit(st, item) == [st EXCEPT !.out[st.cur] = Append(@, item)]
StNewTemp(st) == [st EXCEPT !.tmp = @ + 1]
\* the symbol createTempSymbol returns in streamer state st
StTemp(st) == TempSymbol(st.tmp)

\* EmitIntValue writes the low 8 * size bits of v.  A field of 4 bytes or more
\* is named by the signed 32-bit value with those bits (the range of TLC's
\* integers), e.g. -1 for 0xFFFFFFFF.
IntValue(v, size) ==
    [k |-> "int", v |-> IF size < 4 THEN v % (2 ^ (8 * size)) ELSE v, size |-> size]
Fill(n, v) == [k |-> "fill", size |-> n, v |-> v]
Bytes(b) == [k |-> "bytes", b |-> b]
Label(sym) == [k |-> "label", sym |-> sym]
SymbolAttribute(sym, attr) == [k |-> "attr", sym |-> sym, attr |-> attr]
ValueToAlignment(n, fillv) == [k |-> "align", n |-> n, v |-> fillv]
Value(expr, size, pcrel) == [k |-> "value", expr |-> expr, size |-> size, pcrel |-> pcrel]
COFFSecRel32(sym) == [k |-> "secrel32", sym |-> sym]
COFFSecRel32Value(expr) == [k |-> "secrel32value", expr |-> expr]
COFFSectionIndex(sym) == [k |-> "secidx", sym |-> sym]
CFIDirective(d, reg, off) == [k |-> "cfi", d |-> d, reg |-> reg, off |-> off]

-----------------------------------------------------------------------------
(* Outcome of a call. *)

Call(op, a, res) == [op |-> op, a |-> a, res |-> res]

\* the call ran to its end; st is the streamer state it leaves
Commit(st, op, a) ==
    /\ curSection' = st.cur
    /\ out' = st.out
    /\ nextTemp' = st.tmp
    /\ last' = Call(op, a, "ok")
    /\ ncalls' = ncalls + 1
    /\ status' = "live"

\* an assertion failed with the streamer in state st
Fatal(st, op, a) ==
    /\ curSection' = st.cur
    /\ out' = st.out
    /\ nextTemp' = st.tmp
    /\ last' = Call(op, a, "fatal")
    /\ ncalls' = ncalls + 1
    /\ status' = "aborted"
    /\ UNCHANGED <<format, FrameOpened, FuncId, DebugVarInfos, CustomSections,
                   hasInstructions>>

Live == status = "live"

-----------------------------------------------------------------------------
(* ObjectWriter::init *)

Init ==
    /\ format \in Formats
    /\ FrameOpened = FALSE
    /\ FuncId = 1
    /\ DebugVarInfos = <<>>
    /\ CustomSections = [n \in {} |-> NoSection]
    /\ curSection = NoSection
    /\ out = [s \in Sections |-> <<>>]
    /\ nextTemp = 0
    /\ hasInstructions = {}
    /\ status = "live"
    /\ last = Call("InitObjWriter", [none |-> TRUE], "ok")
    /\ ncalls = 0

-----------------------------------------------------------------------------
(* CFI emitter. *)

DWARF_REG_ILLEGAL == -1
CfiOpCodes == {"CFI_ADJUST_CFA_OFFSET", "CFI_REL_OFFSET", "CFI_DEF_CFA_REGISTER", "CFI_UNKNOWN"}

\* EmitCFIStart without its assertion
EmitCFIStart_Unchecked(Offset) ==
    /\ Live
    /\ Commit(StEmit(OST, CFIDirective("StartProc", DWARF_REG_ILLEGAL, 0)),
              "EmitCFIStart", [Offset |-> Offset])
    /\ FrameOpened' = TRUE
    /\ UNCHANGED <<format, FuncId, DebugVarInfos, CustomSections, hasInstructions>>

EmitCFIStart(Offset) ==
    LET a == [Offset |-> Offset] IN
    /\ Live
    /\ IF FrameOpened
         THEN Fatal(OST, "EmitCFIStart", a)
         ELSE /\ Commit(StEmit(OST, CFIDirective("StartProc", DWARF_REG_ILLEGAL, 0)),
                        "EmitCFIStart", a)
              /\ FrameOpened' = TRUE
              /\ UNCHANGED <<format, FuncId, DebugVarInfos, CustomSections, hasInstructions>>

EmitCFIEnd(Offset) ==
    LET a == [Offset |-> Offset] IN
    /\ Live
    /\ IF ~FrameOpened
         THEN Fatal(OST, "EmitCFIEnd", a)
         ELSE /\ Commit(StEmit(OST, CFIDirective("EndProc", DWARF_REG_ILLEGAL, 0)),
                        "EmitCFIEnd", a)
              /\ FrameOpened' = FALSE
              /\ UNCHANGED <<format, FuncId, DebugVarInfos, CustomSections, hasInstructions>>

\* the assertions of EmitCFICode that the blob passes, in the order they are met
CFICodeAccepted(CfiCode) ==
    /\ FrameOpened
    /\ CASE CfiCode.CfiOpCode = "CFI_ADJUST_CFA_OFFSET" -> CfiCode.DwarfReg = DWARF_REG_ILLEGAL
         [] CfiCode.CfiOpCode = "CFI_REL_OFFSET" -> TRUE
         [] CfiCode.CfiOpCode = "CFI_DEF_CFA_REGISTER" -> CfiCode.Offset = 0
         [] OTHER -> FALSE

CFICodeDirective(CfiCode) ==
    CASE CfiCode.CfiOpCode = "CFI_ADJUST_CFA_OFFSET" ->
           CFIDirective("AdjustCfaOffset", DWARF_REG_ILLEGAL, CfiCode.Offset)
      [] CfiCode.CfiOpCode = "CFI_REL_OFFSET" ->
           CFIDirective("RelOffset", CfiCode.DwarfReg, CfiCode.Offset)
      [] CfiCode.CfiOpCode = "CFI_DEF_CFA_REGISTER" ->
           CFIDirective("DefCfaRegister", CfiCode.DwarfReg, 0)

EmitCFICode(Offset, CfiCode) ==
    LET a == [Offset |-> Offset, CfiCode |-> CfiCode] IN
    /\ Live
    /\ IF ~CFICodeAccepted(CfiCode)
         THEN Fatal(OST, "EmitCFICode", a)
         ELSE /\ Commit(StEmit(OST, CFICodeDirective(CfiCode)), "EmitCFICode", a)
              /\ UNCHANGED <<format, FrameOpened, FuncId, DebugVarInfos, CustomSections,
                             hasInstructions>>

-----------------------------------------------------------------------------
(* Symbol/section registry. *)

\* the section CreateDataSection builds for the session's object format
NewDataSection(SectionName, IsReadOnly) ==
    LET Kind == IF IsReadOnly THEN "ReadOnly" ELSE "Data" IN
    CASE format = "MachO" ->
           [id |-> CustomSectionOf(SectionName), Kind |-> Kind,
            flags |-> {"__DATA"}]
      [] format = "COFF" ->
           [id |-> CustomSectionOf(SectionName), Kind |-> Kind,
            flags |-> {"IMAGE_SCN_CNT_INITIALIZED_DATA", "IMAGE_SCN_MEM_READ"}
                      \cup (IF ~IsReadOnly THEN {"IMAGE_SCN_MEM_WRITE"} ELSE {})]
      [] format = "ELF" ->
           [id |-> CustomSectionOf(SectionName), Kind |-> Kind,
            flags |-> {"SHF_ALLOC"}
                      \cup (IF ~IsReadOnly THEN {"SHF_WRITE"} ELSE {})]

\* CustomSections[SectionNameStr] = Section
Register(SectionName, Section) ==
    [n \in DOMAIN CustomSections \cup {SectionName} |->
        IF n = SectionName THEN Section ELSE CustomSections[n]]

\* CreateDataSection without its assertion: a second call replaces the section
CreateDataSection_Overwrite(SectionName, IsReadOnly) ==
    /\ Live
    /\ CustomSections' = [n \in DOMAIN CustomSections \cup {SectionName} |->
                            IF n = SectionName
                              THEN [id |-> CustomSectionOf(SectionName),
                                    Kind |-> IF IsReadOnly THEN "ReadOnly" ELSE "Data",
                                    flags |-> {}]
                              ELSE CustomSections[n]]
    /\ Commit(OST, "CreateDataSection",
              [SectionName |-> SectionName, IsReadOnly |-> IsReadOnly])
    /\ UNCHANGED <<format, FrameOpened, FuncId, DebugVarInfos, hasInstructions>>

\* The switch's default branch (an unknown object format) is not modelled:
\* ObjectWriter::init builds the session for one of the three formats.
CreateDataSection(SectionName, IsReadOnly) ==
    LET a == [SectionName |-> SectionName, IsReadOnly |-> IsReadOnly] IN
    /\ Live
    /\ IF SectionName \in DOMAIN CustomSections
         THEN Fatal(OST, "CreateDataSection", a)
         ELSE /\ CustomSections' = Register(SectionName, NewDataSection(SectionName, IsReadOnly))
              /\ Commit(OST, "CreateDataSection", a)
              /\ UNCHANGED <<format, FrameOpened, FuncId, DebugVarInfos, hasInstructions>>

\* the section SwitchSection resolves a name to; NoSection: the name is unsupported
ResolveSection(SectionName) ==
    CASE SectionName = "text" -> TextSection
      [] SectionName = "data" -> DataSection
      [] SectionName = "rdata" -> ReadOnlySection
      [] OTHER -> IF SectionName \in DOMAIN CustomSections
                    THEN CustomSections[SectionName].id
                    ELSE NoSection

SwitchSection(SectionName) ==
    LET a == [SectionName |-> SectionName]
        Section == ResolveSection(SectionName) IN
    /\ Live
    /\ IF Section = NoSection
         THEN Fatal(OST, "SwitchSection", a)
         ELSE /\ Commit(StSwitchSection(OST, Section), "SwitchSection", a)
              /\ UNCHANGED <<format, FrameOpened, FuncId, DebugVarInfos, CustomSections,
                             hasInstructions>>

-----------------------------------------------------------------------------
(* Raw emission. *)

NopFill == 144

\* leaves everything of the session but the streamer alone
SessionUnchanged ==
    UNCHANGED <<format, FrameOpened, FuncId, DebugVarInfos, CustomSections, hasInstructions>>

EmitAlignment(ByteAlignment) ==
    /\ Live
    /\ Commit(StEmit(OST, ValueToAlignment(ByteAlignment, NopFill)),
              "EmitAlignment", [ByteAlignment |-> ByteAlignment])
    /\ SessionUnchanged

\* OST.EmitBytes(StringRef(Blob, BlobSize)): the first BlobSize bytes of the buffer
StEmitBlob(st, BlobSize, Blob) == StEmit(st, Bytes(SubSeq(Blob, 1, BlobSize)))

EmitBlob(BlobSize, Blob) ==
    /\ Live
    /\ Commit(StEmitBlob(OST, BlobSize, Blob), "EmitBlob",
              [BlobSize |-> BlobSize, Blob |-> Blob])
    /\ SessionUnchanged

EmitIntValue(IntVal, Size) ==
    /\ Live
    /\ Commit(StEmit(OST, IntValue(IntVal, Size)), "EmitIntValue",
              [IntVal |-> IntVal, Size |-> Size])
    /\ SessionUnchanged

-----------------------------------------------------------------------------
(* Symbol reference resolver. *)

EmitSymbolDef(SymbolName) ==
    LET Sym == NamedSymbol(SymbolName) IN
    /\ Live
    /\ Commit(StEmit(StEmit(OST, SymbolAttribute(Sym, "MCSA_Global")), Label(Sym)),
              "EmitSymbolDef", [SymbolName |-> SymbolName])
    /\ SessionUnchanged

GetSymbolRefExpr(SymbolName, Kind) == SymbolRefExpr(NamedSymbol(SymbolName), Kind)

\* the sizes EmitSymbolRef's switch lets through
SymbolRefAccepted(Size, IsPCRelative) ==
    CASE Size = 8 -> ~IsPCRelative
      [] Size = 4 -> TRUE
      [] OTHER -> FALSE

\* the expression without the PC-relative bias
SymbolRefTarget_NoBias(SymbolName, Size, IsPCRelative, Delta) ==
    LET Ref == GetSymbolRefExpr(SymbolName, "VK_None")
    IN  IF Delta # 0 THEN BinaryAdd(Ref, ConstantExpr(Delta)) ELSE Ref

\* the expression EmitSymbolRef builds for an accepted size
SymbolRefTarget(SymbolName, Size, IsPCRelative, Delta) ==
    LET Ref == GetSymbolRefExpr(SymbolName, "VK_None")
        Biased == IF Size = 4 /\ IsPCRelative
                    THEN BinarySub(Ref, ConstantExpr(Size))
                    ELSE Ref
    IN  IF Delta # 0 THEN BinaryAdd(Biased, ConstantExpr(Delta)) ELSE Biased

EmitSymbolRef(SymbolName, Size, IsPCRelative, Delta) ==
    LET a == [SymbolName |-> SymbolName, Size |-> Size, IsPCRelative |-> IsPCRelative,
              Delta |-> Delta] IN
    /\ Live
    /\ IF ~SymbolRefAccepted(Size, IsPCRelative)
         THEN Fatal(OST, "EmitSymbolRef", a)
         ELSE /\ Commit(StEmit(OST, Value(SymbolRefTarget(SymbolName, Size, IsPCRelative, Delta),
                                          Size, IsPCRelative)),
                        "EmitSymbolRef", a)
              /\ SessionUnchanged


-----------------------------------------------------------------------------
(* Unwind-info emitter. *)

\* bitwise and of two naturals
RECURSIVE BitAnd(_, _)
BitAnd(x, y) ==
    IF x = 0 \/ y = 0 THEN 0
    ELSE (x % 2) * (y % 2) + 2 * BitAnd(x \div 2, y \div 2)

\* Win64EH unwind flags; they sit above the 3 version bits of the first byte
UNW_ExceptionHandler == 1
UNW_TerminateHandler == 2
UNW_ChainInfo == 4
FlagShift == 2 ^ 3

\* a null const char *: no C string holds this byte
nullptr == <<-1>>

\* the chained-info test without the shift past the version bits
HasChainInfo_Unshifted(flags) == BitAnd(flags, UNW_ChainInfo) # 0

HasChainInfo(flags) == BitAnd(flags, UNW_ChainInfo * FlagShift) # 0
\* the handler test looking at the exception-handler bit alone
HasHandler_ExceptionOnly(flags) == BitAnd(flags, UNW_ExceptionHandler * FlagShift) # 0

HasHandler(flags) ==
    BitAnd(flags, (UNW_TerminateHandler + UNW_ExceptionHandler) * FlagShift) # 0

\* .xdata emission up to the inspection of the flags byte
StXDataHead(st, BlobSize, BlobData) ==
    LET st1 == StEmit(StSwitchSection(st, XDataSection), ValueToAlignment(4, 0))
        st2 == StEmit(StNewTemp(st1), Label(StTemp(st1)))
        st3 == StEmitBlob(st2, BlobSize, BlobData)
    IN  StEmit(st3, ValueToAlignment(4, 0))

\* the personality reference and the LSDA, after the flags were accepted
StXDataTail(st, flags, PersonalityFunctionName, LSDASize, LSDA) ==
    LET st1 == IF HasHandler(flags)
                 THEN StEmit(st, Value(GetSymbolRefExpr(PersonalityFunctionName,
                                                        "VK_COFF_IMGREL32"), 4, FALSE))
                 ELSE st
    IN  IF LSDASize # 0 THEN StEmitBlob(st1, LSDASize, LSDA) ELSE st1

\* .pdata emission
StPData(st, FunctionName, StartOffset, EndOffset, FrameSymbol) ==
    LET BaseRefRel == GetSymbolRefExpr(FunctionName, "VK_COFF_IMGREL32")
        st1 == StEmit(StSwitchSection(st, PDataSection), ValueToAlignment(4, 0))
        st2 == StEmit(st1, Value(BinaryAdd(BaseRefRel, ConstantExpr(StartOffset)), 4, FALSE))
        st3 == StEmit(st2, Value(BinaryAdd(BaseRefRel, ConstantExpr(EndOffset)), 4, FALSE))
    IN  StEmit(st3, Value(SymbolRefExpr(FrameSymbol, "VK_COFF_IMGREL32"), 4, FALSE))

EmitWinFrameInfo(FunctionName, StartOffset, EndOffset, BlobSize, BlobData, PersonalityFunctionName, LSDASize, LSDA) ==
    LET a == [FunctionName |-> FunctionName, StartOffset |-> StartOffset,
              EndOffset |-> EndOffset, BlobSize |-> BlobSize, BlobData |-> BlobData,
              PersonalityFunctionName |-> PersonalityFunctionName,
              LSDASize |-> LSDASize, LSDA |-> LSDA]
        flags == BlobData[1]
        FrameSymbol == TempSymbol(nextTemp)
        head == StXDataHead(OST, BlobSize, BlobData)
    IN
    /\ Live
    /\ IF format # "COFF"
         THEN Fatal(OST, "EmitWinFrameInfo", a)
         ELSE IF HasChainInfo(flags)
                   \/ (HasHandler(flags) /\ PersonalityFunctionName = nullptr)
         THEN Fatal(head, "EmitWinFrameInfo", a)
         ELSE /\ Commit(StPData(StXDataTail(head, flags, PersonalityFunctionName,
                                            LSDASize, LSDA),
                                FunctionName, StartOffset, EndOffset, FrameSymbol),
                        "EmitWinFrameInfo", a)
              /\ SessionUnchanged

-----------------------------------------------------------------------------
(* Debug variable/function info emitter. *)

\* record kinds and layout sizes of llvm::codeview and llvm::COFF
DEBUG_SECTION_MAGIC == 4
ModuleSubstreamKind_Symbols == 241
S_LOCAL == 4414
S_DEFRANGE_REGISTER == 4417
S_DEFRANGE_REGISTER_REL == 4421
S_GPROC32_ID == 4423
S_PROC_ID_END == 4431
SizeofLocalSym == 6
SizeofDefRangeRegisterSym == 12
OffsetofDefRangeRegisterRange == 4
SizeofDefRangeRegisterRelSym == 16
OffsetofDefRangeRegisterRelRange == 8
SizeofShort == 2

\* the value a 16-bit field holds
Trunc16(v) == v % (2 ^ 16)

\* the first `size` bytes of a struct, by field
Struct(type, size, fields) == [k |-> "struct", type |-> type, size |-> size, f |-> fields]
CVFileDirective(FileId, FileName) == [k |-> "cv_file", FileId |-> FileId, FileName |-> FileName]
CVLocDirective(FunctionId, FileId, Line, Column) ==
    [k |-> "cv_loc", FunctionId |-> FunctionId, FileId |-> FileId, Line |-> Line,
     Column |-> Column]
CVLinetableDirective(FunctionId, Fn, FnEnd) ==
    [k |-> "cv_linetable", FunctionId |-> FunctionId, Fn |-> Fn, FnEnd |-> FnEnd]
CVFileChecksumsDirective == [k |-> "cv_filechecksums"]
CVStringTableDirective == [k |-> "cv_stringtable"]

\* the register numbering table of jitDebugInfo.h, kept uninterpreted
cvRegMapAmd64(reg) == [cvRegMapAmd64 |-> reg]

StEmitAll(st, items) == [st EXCEPT !.out[st.cur] = @ \o items]

\* EmitValue(To - From, Size)
LabelDiff(From, To, Size) ==
    Value(BinarySub(SymbolRefExpr(To, "VK_None"), SymbolRefExpr(From, "VK_None")), Size, FALSE)

\* the debug entry points without their format check
IsCOFF_Unchecked == TRUE

IsCOFF == format = "COFF"

EmitDebugFileInfo(FileId, FileName) ==
    LET a == [FileId |-> FileId, FileName |-> FileName] IN
    /\ Live
    /\ IF ~IsCOFF
         THEN Commit(OST, "EmitDebugFileInfo", a) /\ SessionUnchanged
         ELSE IF ~(FileId > 0)
         THEN Fatal(OST, "EmitDebugFileInfo", a)
         ELSE /\ Commit(StEmit(OST, CVFileDirective(FileId, FileName)), "EmitDebugFileInfo", a)
              /\ SessionUnchanged

\* the location tagged with the id of the function emitted last
EmitDebugLoc_StaleId(NativeOffset, FileId, LineNumber, ColNumber) ==
    LET a == [NativeOffset |-> NativeOffset, FileId |-> FileId, LineNumber |-> LineNumber,
              ColNumber |-> ColNumber] IN
    /\ Live
    /\ IF ~IsCOFF
         THEN Commit(OST, "EmitDebugLoc", a) /\ SessionUnchanged
         ELSE IF ~(FileId > 0)
         THEN Fatal(OST, "EmitDebugLoc", a)
         ELSE /\ Commit(StEmit(OST, CVLocDirective(IF FuncId > 1 THEN FuncId - 1 ELSE FuncId,
                                                   FileId, LineNumber, ColNumber)),
                        "EmitDebugLoc", a)
              /\ SessionUnchanged

EmitDebugLoc(NativeOffset, FileId, LineNumber, ColNumber) ==
    LET a == [NativeOffset |-> NativeOffset, FileId |-> FileId, LineNumber |-> LineNumber,
              ColNumber |-> ColNumber] IN
    /\ Live
    /\ IF ~IsCOFF
         THEN Commit(OST, "EmitDebugLoc", a) /\ SessionUnchanged
         ELSE IF ~(FileId > 0)
         THEN Fatal(OST, "EmitDebugLoc", a)
         ELSE /\ Commit(StEmit(OST, CVLocDirective(FuncId, FileId, LineNumber, ColNumber)),
                        "EmitDebugLoc", a)
              /\ SessionUnchanged

EmitDebugModuleInfo ==
    LET a == [none |-> TRUE] IN
    /\ Live
    /\ IF ~IsCOFF
         THEN Commit(OST, "EmitDebugModuleInfo", a) /\ SessionUnchanged
         ELSE /\ Commit(StEmitAll(StSwitchSection(OST, COFFDebugSymbolsSection),
                                  <<CVFileChecksumsDirective, CVStringTableDirective>>),
                        "EmitDebugModuleInfo", a)
              /\ SessionUnchanged

\* the loop without its assertion
SameVarNumber_Unchecked(rangeCount, ranges) == TRUE

\* every range of the buffer carries the first range's variable number
SameVarNumber(rangeCount, ranges) ==
    \A i \in 1..rangeCount : ranges[i].varNumber = ranges[1].varNumber

NewDebugVarInfo(name, typeIndex, isParm, rangeCount, ranges) ==
    [varNumber |-> ranges[1].varNumber, name |-> name, typeIndex |-> typeIndex,
     isParam |-> isParm, ranges |-> SubSeq(ranges, 1, rangeCount)]

EmitDebugVar(name, typeIndex, isParm, rangeCount, ranges) ==
    LET a == [name |-> name, typeIndex |-> typeIndex, isParm |-> isParm,
              rangeCount |-> rangeCount, ranges |-> ranges] IN
    /\ Live
    /\ IF rangeCount = 0
         THEN Commit(OST, "EmitDebugVar", a) /\ SessionUnchanged
         ELSE IF ~SameVarNumber(rangeCount, ranges)
         THEN Fatal(OST, "EmitDebugVar", a)
         ELSE /\ DebugVarInfos' =
                    Append(DebugVarInfos,
                           NewDebugVarInfo(name, typeIndex, isParm, rangeCount, ranges))
              /\ Commit(OST, "EmitDebugVar", a)
              /\ UNCHANGED <<format, FrameOpened, FuncId, CustomSections, hasInstructions>>

\* the register case taking the register-pair kind as well
RegisterKinds_WithPairs == {"VLT_REG", "VLT_REG_FP", "VLT_REG_REG"}

\* location kinds of ICorDebugInfo::VarLocType
RegisterKinds == {"VLT_REG", "VLT_REG_FP"}
StackKinds == {"VLT_STK"}
SkippedKinds == {"VLT_REG_BYREF", "VLT_STK_BYREF", "VLT_REG_REG", "VLT_REG_STK",
                 "VLT_STK_REG", "VLT_STK2", "VLT_FPSTK", "VLT_FIXED_VA"}
KnownKinds == RegisterKinds \cup StackKinds \cup SkippedKinds

\* rec.Range.Range = range.endOffset - range.startOffset: the 32-bit difference
\* stored in the 16-bit field of LocalVariableAddrRange.  2^16 divides 2^32, so
\* the field holds the difference modulo 2^16 whether or not it wrapped at 32 bits.
RangeLength(range) == Trunc16(range.endOffset - range.startOffset)

\* "Emit range": the tail shared by both range records
RangeTail(Fn, range) ==
    <<COFFSecRel32Value(BinaryAdd(SymbolRefExpr(Fn, "VK_None"),
                                  ConstantExpr(range.startOffset))),
      COFFSectionIndex(Fn),
      IntValue(RangeLength(range), 2)>>

\* what one range of a variable emits
RangeItems(Fn, range) ==
    CASE range.loc.vlType \in RegisterKinds ->
           <<IntValue(SizeofDefRangeRegisterSym + SizeofShort, 2),
             IntValue(S_DEFRANGE_REGISTER, 2),
             Struct("DefRangeRegisterSym", OffsetofDefRangeRegisterRange,
                    [Register |-> cvRegMapAmd64(range.loc.vlReg), MayHaveNoName |-> 0])>>
           \o RangeTail(Fn, range)
      [] range.loc.vlType \in StackKinds ->
           <<IntValue(SizeofDefRangeRegisterRelSym + SizeofShort, 2),
             IntValue(S_DEFRANGE_REGISTER_REL, 2),
             Struct("DefRangeRegisterRelSym", OffsetofDefRangeRegisterRelRange,
                    [BaseRegister |-> cvRegMapAmd64(range.loc.vlsBaseReg), Flags |-> 0,
                     BasePointerOffset |-> range.loc.vlsOffset])>>
           \o RangeTail(Fn, range)
      [] OTHER -> <<>>

\* the S_LOCAL record of a variable
LocalItems(var) ==
    <<IntValue(SizeofShort + SizeofLocalSym + Len(var.name) + 1, 2),
      IntValue(S_LOCAL, 2),
      Struct("LocalSym", SizeofLocalSym,
             [Type |-> var.typeIndex,
              Flags |-> IF var.isParam THEN {"IsParameter"} ELSE {}]),
      Bytes(var.name \o <<0>>)>>

\* The range loop of one variable from range i on: the items it emits and
\* whether it ran to the end (an unknown location kind stops it: _ASSERTE).
RECURSIVE EmitRanges(_, _, _)
EmitRanges(Fn, ranges, i) ==
    IF i > Len(ranges) THEN [items |-> <<>>, ok |-> TRUE]
    ELSE IF ranges[i].loc.vlType \notin KnownKinds THEN [items |-> <<>>, ok |-> FALSE]
    ELSE LET rest == EmitRanges(Fn, ranges, i + 1)
         IN  [items |-> RangeItems(Fn, ranges[i]) \o rest.items, ok |-> rest.ok]

\* EmitPDBDebugVarInfo from variable i on
RECURSIVE EmitPDBDebugVarInfo(_, _, _)
EmitPDBDebugVarInfo(Fn, LocInfos, i) ==
    IF i > Len(LocInfos) THEN [items |-> <<>>, ok |-> TRUE]
    ELSE LET var == LocInfos[i]
             rs == EmitRanges(Fn, var.ranges, 1)
         IN  IF ~rs.ok
               THEN [items |-> LocalItems(var) \o rs.items, ok |-> FALSE]
               ELSE LET rest == EmitPDBDebugVarInfo(Fn, LocInfos, i + 1)
                    IN  [items |-> LocalItems(var) \o rs.items \o rest.items, ok |-> rest.ok]

\* the procedure record with its end label bound before the name's terminator
ProcRecordItems_ShortLength(Fn, FunctionName, FunctionSize, ProcSegmentBegin, ProcSegmentEnd) ==
    <<LabelDiff(ProcSegmentBegin, ProcSegmentEnd, 2),
      Label(ProcSegmentBegin),
      IntValue(S_GPROC32_ID, 2),
      Fill(12, 0),
      IntValue(FunctionSize, 4),
      Fill(4, 0),
      IntValue(FunctionSize, 4),
      Fill(4, 0),
      COFFSecRel32(Fn),
      COFFSectionIndex(Fn),
      IntValue(128, 1),
      Bytes(FunctionName),
      Label(ProcSegmentEnd),
      IntValue(0, 1)>>

\* the procedure record, from its length prefix to the ProcSegmentEnd label
ProcRecordItems(Fn, FunctionName, FunctionSize, ProcSegmentBegin, ProcSegmentEnd) ==
    <<LabelDiff(ProcSegmentBegin, ProcSegmentEnd, 2),
      Label(ProcSegmentBegin),
      IntValue(S_GPROC32_ID, 2),
      Fill(12, 0),
      IntValue(FunctionSize, 4),
      Fill(4, 0),
      IntValue(FunctionSize, 4),
      Fill(4, 0),
      COFFSecRel32(Fn),
      COFFSectionIndex(Fn),
      IntValue(128, 1),
      Bytes(FunctionName),
      IntValue(0, 1),
      Label(ProcSegmentEnd)>>

\* the magic written before every entry
MagicItems_Always == <<IntValue(DEBUG_SECTION_MAGIC, 4)>>

\* the debug section magic goes before the first entry only
MagicItems == IF FuncId = 1 THEN <<IntValue(DEBUG_SECTION_MAGIC, 4)>> ELSE <<>>

\* "We're done with this function", the end label and the padding
ProcEndItems(SymbolsEnd) ==
    <<IntValue(2, 2), IntValue(S_PROC_ID_END, 2), Label(SymbolsEnd), ValueToAlignment(4, 0)>>

EmitPDBDebugFunctionInfo(FunctionName, FunctionSize) ==
    LET a == [FunctionName |-> FunctionName, FunctionSize |-> FunctionSize]
        FnEnd == TempSymbol(nextTemp)
        SymbolsBegin == TempSymbol(nextTemp + 1)
        SymbolsEnd == TempSymbol(nextTemp + 2)
        ProcSegmentBegin == TempSymbol(nextTemp + 3)
        ProcSegmentEnd == TempSymbol(nextTemp + 4)
        Fn == NamedSymbol(FunctionName)
        st1 == StSwitchSection(StEmit(OST, Label(FnEnd)), COFFDebugSymbolsSection)
        st2 == StEmitAll(st1, MagicItems
                              \o <<IntValue(ModuleSubstreamKind_Symbols, 4),
                                   LabelDiff(SymbolsBegin, SymbolsEnd, 4),
                                   Label(SymbolsBegin)>>
                              \o ProcRecordItems(Fn, FunctionName, FunctionSize,
                                                 ProcSegmentBegin, ProcSegmentEnd))
        locals == EmitPDBDebugVarInfo(Fn, DebugVarInfos, 1)
        st3 == [StEmitAll(st2, locals.items) EXCEPT !.tmp = nextTemp + 5]
        st4 == StEmit(StEmitAll(st3, ProcEndItems(SymbolsEnd)),
                      CVLinetableDirective(FuncId, Fn, FnEnd))
    IN
    IF ~locals.ok
      THEN Fatal(st3, "EmitDebugFunctionInfo", a)
      ELSE /\ Commit(st4, "EmitDebugFunctionInfo", a)
           /\ DebugVarInfos' = <<>>
           /\ FuncId' = FuncId + 1
           /\ UNCHANGED <<format, FrameOpened, CustomSections, hasInstructions>>

EmitDebugFunctionInfo(FunctionName, FunctionSize) ==
    /\ Live
    /\ IF IsCOFF
         THEN EmitPDBDebugFunctionInfo(FunctionName, FunctionSize)
         ELSE /\ Commit(OST, "EmitDebugFunctionInfo",
                        [FunctionName |-> FunctionName, FunctionSize |-> FunctionSize])
              /\ SessionUnchanged

-----------------------------------------------------------------------------
(* Layout: what the assembler makes of a section's stream. *)

\* bytes an item occupies when it is placed at offset `at` of its section;
\* labels, attributes and directives hold no bytes of this writer's own
ItemSize(item, at) ==
    CASE item.k = "bytes" -> Len(item.b)
      [] item.k \in {"int", "fill", "value", "struct"} -> item.size
      [] item.k \in {"secrel32", "secrel32value"} -> 4
      [] item.k = "secidx" -> 2
      [] item.k = "align" -> (item.n - (at % item.n)) % item.n
      [] OTHER -> 0

\* offset of the section at which item i of the stream is placed
RECURSIVE OffsetAt(_, _)
OffsetAt(stream, i) ==
    IF i <= 1 THEN 0
    ELSE LET at == OffsetAt(stream, i - 1) IN at + ItemSize(stream[i - 1], at)

\* the positions at which a label is bound in a stream
LabelIndexes(stream, sym) == {i \in 1..Len(stream) : stream[i] = Label(sym)}

\* the offset a label bound in the stream resolves to
LabelOffset(stream, sym) == OffsetAt(stream, CHOOSE i \in LabelIndexes(stream, sym) : TRUE)

\* little-endian bytes of a field
RECURSIVE LittleEndian(_, _)
LittleEndian(v, size) ==
    IF size = 0 THEN <<>> ELSE <<v % 256>> \o LittleEndian(v \div 256, size - 1)

-----------------------------------------------------------------------------
(* What a front end passes. *)

Foo == <<70, 111, 111>>
Bar == <<66, 97, 114>>
Nops == <<144, 144>>

NativeVarInfo(startOffset, endOffset, varNumber, vlType) ==
    [startOffset |-> startOffset, endOffset |-> endOffset, varNumber |-> varNumber,
     loc |-> [vlType |-> vlType, vlReg |-> 3, vlsBaseReg |-> 5, vlsOffset |-> 8]]

\* the largest native offset TLC's integers hold
MaxOffset == 2 ^ 30 + (2 ^ 30 - 1)

\* (start, end) pairs around the 16-bit and 32-bit edges
OffsetPairs ==
    {<<0, 4>>, <<4, 4>>, <<0, 2 ^ 16 - 1>>, <<0, 2 ^ 16>>, <<4, 2 ^ 16 + 8>>,
     <<0, MaxOffset>>}

SingleRanges ==
    {<<NativeVarInfo(p[1], p[2], 0, t)>> : p \in OffsetPairs, t \in {"VLT_REG", "VLT_STK"}}

MixedRanges ==
    {<<NativeVarInfo(0, 4, 1, "VLT_REG"), NativeVarInfo(4, 8, 1, "VLT_STK")>>,
     <<NativeVarInfo(0, 4, 0, "VLT_REG_FP"), NativeVarInfo(4, 8, 1, "VLT_REG")>>,
     <<NativeVarInfo(0, 4, 1, "VLT_REG_REG")>>,
     <<NativeVarInfo(0, 4, 0, "VLT_STK"), NativeVarInfo(4, 6, 0, "VLT_FPSTK"),
       NativeVarInfo(6, 8, 0, "VLT_REG")>>,
     <<NativeVarInfo(0, 4, 0, "VLT_INVALID")>>}

FewRanges ==
    {<<>>,
     <<NativeVarInfo(0, 4, 1, "VLT_REG"), NativeVarInfo(4, 8, 1, "VLT_STK")>>,
     <<NativeVarInfo(0, 4, 0, "VLT_REG"), NativeVarInfo(4, 8, 1, "VLT_REG")>>}

\* unwind blobs: version 1 in the low 3 bits, the flags above them
UnwindBlobs ==
    {<<1, 4, 2, 0>>, <<9, 0>>, <<17, 2, 1>>, <<25, 0, 0, 0, 0>>, <<33, 4, 2, 0>>, <<41, 0>>}

\* the CFI blobs a front end passes
CfiCodes ==
    [CfiOpCode : CfiOpCodes, DwarfReg : {DWARF_REG_ILLEGAL, 6}, Offset : {0, 16}]

-----------------------------------------------------------------------------
(* Specifications: the whole interface, and each component on its own with *)
(* a wider choice of arguments.                                            *)

\* --- CFI emitter
CFI_Start == ncalls < MaxCFICalls /\ \E Offset \in {0} : EmitCFIStart(Offset)
CFI_End == ncalls < MaxCFICalls /\ \E Offset \in {0} : EmitCFIEnd(Offset)
CFI_Code == ncalls < MaxCFICalls /\ \E Offset \in {0}, c \in CfiCodes : EmitCFICode(Offset, c)

NextCFI == CFI_Start \/ CFI_End \/ CFI_Code

SpecCFI == Init /\ [][NextCFI]_vars

\* --- section registry and raw emission
Sec_Create ==
    ncalls < MaxSectionCalls
    /\ \E n \in CustomNames, ro \in BOOLEAN : CreateDataSection(n, ro)
Sec_Switch ==
    ncalls < MaxSectionCalls
    /\ \E n \in WellKnownNames \cup CustomNames : SwitchSection(n)
Sec_Blob == ncalls < MaxSectionCalls /\ EmitBlob(2, Nops)
Sec_Align == ncalls < MaxSectionCalls /\ EmitAlignment(4)
Sec_Int == ncalls < MaxSectionCalls /\ EmitIntValue(7, 4)

NextSections == Sec_Create \/ Sec_Switch \/ Sec_Blob \/ Sec_Align \/ Sec_Int

SpecSections == Init /\ [][NextSections]_vars

\* --- symbol definitions and references
Sym_Switch == ncalls < MaxSymCalls /\ \E n \in {"text", "data"} : SwitchSection(n)
Sym_Def == ncalls < MaxSymCalls /\ \E n \in {Foo, Bar} : EmitSymbolDef(n)
Sym_Ref ==
    ncalls < MaxSymCalls
    /\ \E n \in {Foo, Bar}, size \in {1, 2, 4, 8}, pc \in BOOLEAN, d \in {0, 5, -3} :
          EmitSymbolRef(n, size, pc, d)

NextSym == Sym_Switch \/ Sym_Def \/ Sym_Ref

SpecSym == Init /\ [][NextSym]_vars

\* --- unwind info
Unw_Switch == ncalls < MaxUnwindCalls /\ SwitchSection("text")
Unw_Blob == ncalls < MaxUnwindCalls /\ EmitBlob(2, Nops)
Unw_Frame ==
    ncalls < MaxUnwindCalls
    /\ \E blob \in UnwindBlobs, size \in {0, 1}, pers \in {nullptr, Bar}, lsda \in {0, 2} :
          EmitWinFrameInfo(Foo, 0, 2, IF size = 0 THEN 0 ELSE Len(blob), blob, pers,
                           lsda, Nops)

NextUnwind == Unw_Switch \/ Unw_Blob \/ Unw_Frame

SpecUnwind == Init /\ [][NextUnwind]_vars

\* --- variables of a function
Var_Var ==
    ncalls < MaxVarCalls
    /\ \E rs \in {<<>>} \cup SingleRanges \cup MixedRanges :
          EmitDebugVar(Bar, 116, Len(rs) > 1, Len(rs), rs)
Var_Function == ncalls < MaxVarCalls /\ EmitDebugFunctionInfo(Foo, 2)

NextVars == Var_Var \/ Var_Function

SpecVars == Init /\ [][NextVars]_vars

\* --- debug info of functions
Dbg_Switch == ncalls < MaxDebugCalls /\ SwitchSection("text")
Dbg_Def == ncalls < MaxDebugCalls /\ EmitSymbolDef(Foo)
Dbg_Blob == ncalls < MaxDebugCalls /\ EmitBlob(2, Nops)
Dbg_File == ncalls < MaxDebugCalls /\ \E id \in {0, 1} : EmitDebugFileInfo(id, "a.cs")
Dbg_Var == ncalls < MaxDebugCalls /\ \E rs \in FewRanges : EmitDebugVar(Bar, 116, TRUE, Len(rs), rs)
Dbg_Loc == ncalls < MaxDebugCalls /\ \E id \in {-1, 1} : EmitDebugLoc(0, id, 10, 1)
Dbg_Function ==
    ncalls < MaxDebugCalls
    /\ \E f \in {<<Foo, 2>>, <<Bar, 0>>, <<<<>>, -1>>} : EmitDebugFunctionInfo(f[1], f[2])
Dbg_Module == ncalls < MaxDebugCalls /\ EmitDebugModuleInfo

NextDebug ==
    Dbg_Switch \/ Dbg_Def \/ Dbg_Blob \/ Dbg_File \/ Dbg_Var \/ Dbg_Loc \/ Dbg_Function
    \/ Dbg_Module

SpecDebug == Init /\ [][NextDebug]_vars

\* --- the whole interface
Do_CreateDataSection ==
    ncalls < MaxCalls /\ \E ro \in BOOLEAN : CreateDataSection("mydata", ro)
Do_SwitchSection == ncalls < MaxCalls /\ \E n \in {"text", "mydata"} : SwitchSection(n)
Do_EmitAlignment == ncalls < MaxCalls /\ EmitAlignment(4)
Do_EmitBlob == ncalls < MaxCalls /\ EmitBlob(2, Nops)
Do_EmitIntValue == ncalls < MaxCalls /\ EmitIntValue(7, 4)
Do_EmitSymbolDef == ncalls < MaxCalls /\ EmitSymbolDef(Foo)
Do_EmitSymbolRef ==
    ncalls < MaxCalls
    /\ \E r \in {<<4, TRUE, 0>>, <<8, TRUE, 0>>, <<8, FALSE, 5>>} :
          EmitSymbolRef(Foo, r[1], r[2], r[3])
Do_EmitWinFrameInfo ==
    ncalls < MaxCalls
    /\ \E blob \in {<<9, 0>>, <<33, 4, 2, 0>>} :
          EmitWinFrameInfo(Foo, 0, 2, Len(blob), blob, Bar, 0, Nops)
Do_EmitCFIStart == ncalls < MaxCalls /\ EmitCFIStart(0)
Do_EmitCFIEnd == ncalls < MaxCalls /\ EmitCFIEnd(0)
Do_EmitCFICode ==
    ncalls < MaxCalls
    /\ \E op \in {"CFI_REL_OFFSET", "CFI_UNKNOWN"} :
          EmitCFICode(0, [CfiOpCode |-> op, DwarfReg |-> 6, Offset |-> 16])
Do_EmitDebugFileInfo == ncalls < MaxCalls /\ \E id \in {0, 1} : EmitDebugFileInfo(id, "a.cs")
Do_EmitDebugVar ==
    ncalls < MaxCalls /\ \E rs \in FewRanges : EmitDebugVar(Bar, 116, FALSE, Len(rs), rs)
Do_EmitDebugLoc == ncalls < MaxCalls /\ EmitDebugLoc(0, 1, 10, 1)
Do_EmitDebugFunctionInfo == ncalls < MaxCalls /\ EmitDebugFunctionInfo(Foo, 2)
Do_EmitDebugModuleInfo == ncalls < MaxCalls /\ EmitDebugModuleInfo

Next ==
    \/ Do_CreateDataSection
    \/ Do_SwitchSection
    \/ Do_EmitAlignment
    \/ Do_EmitBlob
    \/ Do_EmitIntValue
    \/ Do_EmitSymbolDef
    \/ Do_EmitSymbolRef
    \/ Do_EmitWinFrameInfo
    \/ Do_EmitCFIStart
    \/ Do_EmitCFIEnd
    \/ Do_EmitCFICode
    \/ Do_EmitDebugFileInfo
    \/ Do_EmitDebugVar
    \/ Do_EmitDebugLoc
    \/ Do_EmitDebugFunctionInfo
    \/ Do_EmitDebugModuleInfo

Spec == Init /\ [][Next]_vars

-----------------------------------------------------------------------------
(* Properties. *)

\* the items a step appended to a section's stream
Appended(sec) == SubSeq(out'[sec], Len(out[sec]) + 1, Len(out'[sec]))

\* how many items of all streams satisfy a CFI directive name
CFICount(d) ==
    Cardinality({x \in UNION {{<<sec, i>> : i \in 1..Len(out[sec])} : sec \in Sections} :
                    /\ out[x[1]][x[2]].k = "cfi"
                    /\ out[x[1]][x[2]].d = d})

\* frames opened and not yet closed
OpenFrames == CFICount("StartProc") - CFICount("EndProc")

\* C1: the frame state machine.  EmitCFIStart succeeds exactly when the frame
\* is closed and leaves it open; EmitCFIEnd succeeds exactly when it is open
\* and leaves it closed; EmitCFICode succeeds only while it is open; a failed
\* call leaves the flag as it was; and at most one frame is open at any time
\* (FrameOpened says whether one is).
C1_StepRule ==
    /\ last'.op = "EmitCFIStart" =>
          /\ (last'.res = "ok") <=> ~FrameOpened
          /\ last'.res = "ok" => FrameOpened'
    /\ last'.op = "EmitCFIEnd" =>
          /\ (last'.res = "ok") <=> FrameOpened
          /\ last'.res = "ok" => ~FrameOpened'
    /\ last'.op = "EmitCFICode" =>
          /\ last'.res = "ok" => FrameOpened
          /\ FrameOpened' = FrameOpened
    /\ last'.op \in {"EmitCFIStart", "EmitCFIEnd", "EmitCFICode"} /\ last'.res # "ok" =>
          /\ last'.res = "fatal"
          /\ FrameOpened' = FrameOpened
          /\ out' = out

\* C1: every CFI call obeys the frame rule above, and in every reachable state
\* the frames opened and not yet closed number 1 when FrameOpened and 0
\* otherwise, so at most one frame is ever open.
C1_FrameStateMachine ==
    /\ [](OpenFrames = (IF FrameOpened THEN 1 ELSE 0))
    /\ [][C1_StepRule]_vars

\* a frame was opened, given a CFI code, closed, and a second close failed
C1_Witness ==
    /\ last.op = "EmitCFIEnd"
    /\ last.res = "fatal"
    /\ CFICount("StartProc") = 1
    /\ CFICount("EndProc") = 1
    /\ CFICount("RelOffset") = 1

\* the session writes a COFF object
OnCOFF == format = "COFF"

\* how many items of a stream equal a given item
CountOf(stream, item) == Cardinality({i \in 1..Len(stream) : stream[i] = item})

\* how many items of a stream are of a given kind
CountKind(stream, k) == Cardinality({i \in 1..Len(stream) : stream[i].k = k})

DebugStream == out[COFFDebugSymbolsSection]
MagicItem == IntValue(DEBUG_SECTION_MAGIC, 4)
MagicCount == CountOf(DebugStream, MagicItem)

\* a step that is a completed EmitDebugFunctionInfo call
FunctionInfoCompletes == last'.op = "EmitDebugFunctionInfo" /\ last'.res = "ok"

\* the magic is the first thing a step writes to the debug section (only the
\* function-end label may come before it, when that section is the current one)
MagicLeads ==
    LET new == Appended(COFFDebugSymbolsSection)
        m == CHOOSE i \in 1..Len(new) : new[i] = MagicItem
    IN  /\ \E i \in 1..Len(new) : new[i] = MagicItem
        /\ \A i \in 1..(m - 1) : new[i].k = "label"

\* what C2 says of the magic: it is written by the first EmitDebugFunctionInfo
\* call only, once, before that function's records
C2_MagicRule ==
    /\ MagicCount' # MagicCount =>
          /\ last'.op = "EmitDebugFunctionInfo"
          /\ FuncId = 1
          /\ MagicCount = 0
          /\ MagicCount' = 1
          /\ MagicLeads
    /\ last'.op = "EmitDebugFunctionInfo" /\ OnCOFF /\ FuncId = 1 => MagicCount' = 1

\* C2 as stated: the counter goes up by one with every completed
\* EmitDebugFunctionInfo call, whatever the object format, no other call
\* changes it, and the magic is written once, by the first such call.
C2_AsStated ==
    [][/\ FunctionInfoCompletes => FuncId' = FuncId + 1
       /\ FuncId' # FuncId => FunctionInfoCompletes
       /\ C2_MagicRule]_vars

\* C2, amended: on a COFF session the counter starts at 1, goes up by exactly
\* one with every completed EmitDebugFunctionInfo call and is changed by no
\* other call, so it is 1 + the number of line tables emitted; the magic is
\* written once, by the first EmitDebugFunctionInfo call, before that
\* function's records.  On any other format the call is a no-op: the counter
\* stays 1 and no magic is written.
C2_CounterAndMagic ==
    /\ [](/\ FuncId = 1 + CountKind(DebugStream, "cv_linetable")
          /\ MagicCount <= 1
          /\ ~OnCOFF => FuncId = 1 /\ MagicCount = 0)
    /\ [][/\ FunctionInfoCompletes /\ OnCOFF => FuncId' = FuncId + 1
          /\ FuncId' # FuncId => FunctionInfoCompletes /\ OnCOFF /\ FuncId' = FuncId + 1
          /\ C2_MagicRule]_vars

\* two functions were finalized on a COFF session and the magic was written once
C2_Witness ==
    /\ OnCOFF
    /\ FuncId = 3
    /\ MagicCount = 1
    /\ DebugStream[1] = MagicItem
    /\ last.op = "EmitDebugFunctionInfo"

\* an address for every symbol, to evaluate expressions with
SymbolAddress(sym) ==
    IF sym = NamedSymbol(Foo) THEN 4096
    ELSE IF sym = NamedSymbol(Bar) THEN 12288
    ELSE 20480

\* the value of a symbol expression once its symbols have addresses
RECURSIVE Eval(_)
Eval(expr) ==
    CASE expr.e = "ref" -> SymbolAddress(expr.sym)
      [] expr.e = "const" -> expr.c
      [] expr.e = "add" -> Eval(expr.l) + Eval(expr.r)
      [] expr.e = "sub" -> Eval(expr.l) - Eval(expr.r)

\* the step wrote nothing outside section sec
OnlyWrote(sec) == \A other \in Sections \ {sec} : out'[other] = out[other]

\* C3: EmitSymbolRef emits a value only for size 4, or size 8 when not
\* PC-relative; the value has the given size and evaluates to the symbol's
\* address, minus 4 when the size is 4 and the reference is PC-relative, plus
\* delta.  Any other size, and size 8 when PC-relative, is fatal and emits
\* nothing.
C3_Rule ==
    last'.op = "EmitSymbolRef" =>
        LET a == last'.a
            accepted == a.Size = 4 \/ (a.Size = 8 /\ ~a.IsPCRelative)
            new == Appended(curSection)
        IN  /\ (last'.res = "ok") <=> accepted
            /\ ~accepted => last'.res = "fatal" /\ out' = out
            /\ accepted =>
                  /\ curSection' = curSection
                  /\ OnlyWrote(curSection)
                  /\ Len(new) = 1
                  /\ new[1].k = "value"
                  /\ new[1].size = a.Size
                  /\ new[1].pcrel = a.IsPCRelative
                  /\ Eval(new[1].expr) =
                        SymbolAddress(NamedSymbol(a.SymbolName))
                        - (IF a.Size = 4 /\ a.IsPCRelative THEN 4 ELSE 0)
                        + a.Delta

\* C3: every EmitSymbolRef call emits one value, ref - 4 (size 4, PC-relative)
\* or ref, plus a nonzero delta, exactly for size 4 and for size 8 not
\* PC-relative; every other call is fatal and emits nothing.
C3_SymbolReference == [][C3_Rule]_vars

\* a 4-byte PC-relative reference to Foo with delta 5 was emitted into .text:
\* (Foo - 4) + 5
C3_Witness ==
    /\ last.op = "EmitSymbolRef"
    /\ last.res = "ok"
    /\ last.a = [SymbolName |-> Foo, Size |-> 4, IsPCRelative |-> TRUE, Delta |-> 5]
    /\ curSection = TextSection
    /\ out[TextSection] =
          <<Value(BinaryAdd(BinarySub(SymbolRefExpr(NamedSymbol(Foo), "VK_None"),
                                      ConstantExpr(4)),
                            ConstantExpr(5)), 4, TRUE)>>

\* C4: CreateDataSection for a name that is already registered is fatal and
\* leaves the registry as it was, so the name still maps to the section the
\* first call created; for a new name it registers the section it creates; and
\* no step changes or removes a registered name's section.
C4_Rule ==
    /\ last'.op = "CreateDataSection" =>
          LET n == last'.a.SectionName IN
          /\ n \in DOMAIN CustomSections =>
                last'.res = "fatal" /\ CustomSections' = CustomSections
          /\ n \notin DOMAIN CustomSections =>
                /\ last'.res = "ok"
                /\ DOMAIN CustomSections' = DOMAIN CustomSections \cup {n}
                /\ CustomSections'[n].Kind =
                      (IF last'.a.IsReadOnly THEN "ReadOnly" ELSE "Data")
    /\ \A n \in DOMAIN CustomSections :
          n \in DOMAIN CustomSections' /\ CustomSections'[n] = CustomSections[n]

\* C4: CreateDataSection of a name already registered is fatal and every
\* registered name keeps the section its first call created.
C4_DuplicateSection == [][C4_Rule]_vars

\* "mydata" was created read-only; a second CreateDataSection("mydata"), asking
\* for a writable section, failed and the registry still holds the first one
C4_Witness ==
    /\ last.op = "CreateDataSection"
    /\ last.a = [SectionName |-> "mydata", IsReadOnly |-> FALSE]
    /\ last.res = "fatal"
    /\ "mydata" \in DOMAIN CustomSections
    /\ CustomSections["mydata"].Kind = "ReadOnly"

\* C5: EmitDebugVar with no ranges changes nothing; with ranges whose variable
\* numbers are not all the first range's it is fatal and appends nothing;
\* otherwise it appends exactly one record after the pending ones, carrying
\* the first range's variable number and all the ranges in the given order.
C5_Rule ==
    last'.op = "EmitDebugVar" =>
        LET a == last'.a
            n == Len(DebugVarInfos)
            disagree == \E i \in 1..a.rangeCount :
                            a.ranges[i].varNumber # a.ranges[1].varNumber
        IN  /\ out' = out /\ curSection' = curSection /\ FuncId' = FuncId
            /\ a.rangeCount = 0 => last'.res = "ok" /\ DebugVarInfos' = DebugVarInfos
            /\ a.rangeCount > 0 /\ disagree =>
                  last'.res = "fatal" /\ DebugVarInfos' = DebugVarInfos
            /\ a.rangeCount > 0 /\ ~disagree =>
                  /\ last'.res = "ok"
                  /\ Len(DebugVarInfos') = n + 1
                  /\ SubSeq(DebugVarInfos', 1, n) = DebugVarInfos
                  /\ DebugVarInfos'[n + 1].varNumber = a.ranges[1].varNumber
                  /\ DebugVarInfos'[n + 1].ranges = a.ranges
                  /\ DebugVarInfos'[n + 1].name = a.name

\* C5: EmitDebugVar with no ranges changes nothing; with ranges whose slot
\* numbers disagree it is fatal and appends nothing; otherwise it appends one
\* record, last, with the first range's slot number and the ranges in order.
C5_DebugVar == [][C5_Rule]_vars

\* a variable with three ranges was appended behind a pending one, and a call
\* with disagreeing variable numbers then failed without touching the list
C5_Witness ==
    /\ last.op = "EmitDebugVar"
    /\ last.res = "fatal"
    /\ Len(DebugVarInfos) = 2
    /\ Len(DebugVarInfos[1].ranges) = 1
    /\ Len(DebugVarInfos[2].ranges) = 3

\* the chained-info flag bit (0x20) of a blob's first byte
ChainedBlob(BlobData) == (BlobData[1] \div 32) % 2 = 1

\* C6: EmitWinFrameInfo with a blob whose first byte has the chained-info bit
\* set is fatal, and .pdata is as it was before the call.
C6_Rule ==
    last'.op = "EmitWinFrameInfo" /\ ChainedBlob(last'.a.BlobData) =>
        /\ last'.res = "fatal"
        /\ status' = "aborted"
        /\ out'[PDataSection] = out[PDataSection]

\* C6: EmitWinFrameInfo with the chained-info bit set in the first blob byte
\* is fatal and has written nothing to .pdata.
C6_ChainedInfoRejected == [][C6_Rule]_vars

\* on a COFF session one frame was emitted; the next call, with a chained
\* blob, failed after writing its .xdata record and left .pdata with the first
\* call's entry only
C6_Witness ==
    /\ OnCOFF
    /\ last.op = "EmitWinFrameInfo"
    /\ ChainedBlob(last.a.BlobData)
    /\ last.res = "fatal"
    /\ CountKind(out[XDataSection], "label") = 2
    /\ CountKind(out[PDataSection], "value") = 3
    /\ curSection = XDataSection

\* C7: once SwitchSection("text") has completed, the code section is marked as
\* holding instructions.
C7_TextMarked ==
    (last.op = "SwitchSection" /\ last.a.SectionName = "text" /\ last.res = "ok")
        => (curSection = TextSection /\ TextSection \in hasInstructions)

\* the part of C7 the code does: the code section becomes the current one
C7_TextCurrent ==
    (last.op = "SwitchSection" /\ last.a.SectionName = "text" /\ last.res = "ok")
        => curSection = TextSection

\* end - start of every register or stack range of the pending variables, in
\* the order EmitPDBDebugVarInfo visits them
RECURSIVE RangeDifferences(_, _)
RangeDifferences(ranges, i) ==
    IF i > Len(ranges) THEN <<>>
    ELSE (IF ranges[i].loc.vlType \in RegisterKinds \cup StackKinds
            THEN <<ranges[i].endOffset - ranges[i].startOffset>>
            ELSE <<>>)
         \o RangeDifferences(ranges, i + 1)

RECURSIVE ExpectedLengths(_, _)
ExpectedLengths(varInfos, i) ==
    IF i > Len(varInfos) THEN <<>>
    ELSE RangeDifferences(varInfos[i].ranges, 1) \o ExpectedLengths(varInfos, i + 1)

\* the 2-byte length fields among the items: each follows the section-relative
\* address and the section index of its range
RECURSIVE EmittedLengths(_, _)
EmittedLengths(items, i) ==
    IF i > Len(items) THEN <<>>
    ELSE (IF i > 2 /\ items[i - 1].k = "secidx" /\ items[i - 2].k = "secrel32value"
            THEN <<items[i].v>>
            ELSE <<>>)
         \o EmittedLengths(items, i + 1)

\* C8: the length field of every register or stack range EmitDebugFunctionInfo
\* emits is end - start.
C8_AsStated ==
    [][FunctionInfoCompletes /\ OnCOFF =>
          EmittedLengths(Appended(COFFDebugSymbolsSection), 1)
              = ExpectedLengths(DebugVarInfos, 1)]_vars

\* what the code does: the field holds end - start modulo 2^16
RECURSIVE Mod16(_, _)
Mod16(lengths, i) ==
    IF i > Len(lengths) THEN <<>> ELSE <<lengths[i] % (2 ^ 16)>> \o Mod16(lengths, i + 1)

C8_Truncated ==
    [][FunctionInfoCompletes /\ OnCOFF =>
          EmittedLengths(Appended(COFFDebugSymbolsSection), 1)
              = Mod16(ExpectedLengths(DebugVarInfos, 1), 1)]_vars

\* C9: on a session that is not COFF, EmitDebugFileInfo, EmitDebugLoc,
\* EmitDebugFunctionInfo and EmitDebugModuleInfo complete without emitting,
\* switching section, or touching the counter or the pending variables,
\* whatever their arguments.
C9_Rule ==
    (~OnCOFF /\ last'.op \in {"EmitDebugFileInfo", "EmitDebugLoc", "EmitDebugFunctionInfo",
                              "EmitDebugModuleInfo"}) =>
        /\ last'.res = "ok"
        /\ status' = "live"
        /\ out' = out
        /\ curSection' = curSection
        /\ nextTemp' = nextTemp
        /\ FuncId' = FuncId
        /\ DebugVarInfos' = DebugVarInfos

\* C9: on a non-COFF session the four debug calls complete and change nothing:
\* no output, no section switch, same FuncId, same DebugVarInfos.
C9_NonCOFFNoOps == [][C9_Rule]_vars

\* on an ELF session, with a variable pending and .text current,
\* EmitDebugLoc with the file id -1 completed
C9_Witness ==
    /\ format = "ELF"
    /\ last.op = "EmitDebugLoc"
    /\ last.a.FileId = -1
    /\ last.res = "ok"
    /\ DebugVarInfos # <<>>
    /\ curSection = TextSection
    /\ out[TextSection] # <<>>

\* a byte whose value the linker fills in
Relocated == 0 - 1

\* n copies of a byte
RECURSIVE Repeat(_, _)
Repeat(b, n) == IF n <= 0 THEN <<>> ELSE <<b>> \o Repeat(b, n - 1)

\* the bytes an item of a record holds
ItemBytes(item) ==
    CASE item.k = "bytes" -> item.b
      [] item.k = "int" -> LittleEndian(item.v, item.size)
      [] item.k = "fill" -> Repeat(item.v, item.size)
      [] OTHER -> Repeat(Relocated, ItemSize(item, 0))

\* the bytes of the items from position i on
RECURSIVE FlatBytes(_, _)
FlatBytes(items, i) ==
    IF i > Len(items) THEN <<>> ELSE ItemBytes(items[i]) \o FlatBytes(items, i + 1)

\* the value of a label expression once the labels of a stream have offsets
RECURSIVE Resolve(_, _)
Resolve(stream, expr) ==
    CASE expr.e = "ref" -> LabelOffset(stream, expr.sym)
      [] expr.e = "const" -> expr.c
      [] expr.e = "add" -> Resolve(stream, expr.l) + Resolve(stream, expr.r)
      [] expr.e = "sub" -> Resolve(stream, expr.l) - Resolve(stream, expr.r)

\* layout of the procedure-start record (ProcSym), from its record kind:
\* byte offsets of the code size, the debug-end offset and the name
ProcCodeSizeAt == 14
ProcDbgEndAt == 22
ProcNameAt == 37

\* C10: a completed EmitDebugFunctionInfo(name, size) call on a COFF session
\* emits exactly one S_GPROC32_ID record; its two size fields hold size, its
\* name field holds the bytes of name and one zero byte, and its 2-byte length
\* prefix resolves to the number of bytes from the record kind through that
\* zero byte.
C10_Rule ==
    FunctionInfoCompletes /\ OnCOFF =>
        LET a == last'.a
            new == Appended(COFFDebugSymbolsSection)
            starts == {i \in 1..Len(new) : new[i] = IntValue(S_GPROC32_ID, 2)}
            p == CHOOSE i \in starts : TRUE
            bytes == FlatBytes(new, p)
            \* index of the zero byte that ends the name
            z == CHOOSE i \in (ProcNameAt + 1)..Len(bytes) :
                    /\ bytes[i] = 0
                    /\ \A j \in (ProcNameAt + 1)..(i - 1) : bytes[j] # 0
            prefix == new[p - 2]
        IN  /\ Cardinality(starts) = 1
            /\ SubSeq(bytes, ProcCodeSizeAt + 1, ProcCodeSizeAt + 4)
                  = LittleEndian(a.FunctionSize, 4)
            /\ SubSeq(bytes, ProcDbgEndAt + 1, ProcDbgEndAt + 4)
                  = LittleEndian(a.FunctionSize, 4)
            /\ SubSeq(bytes, ProcNameAt + 1, z) = a.FunctionName \o <<0>>
            /\ p > 2
            /\ prefix.k = "value"
            /\ prefix.size = 2
            /\ Resolve(out'[COFFDebugSymbolsSection], prefix.expr) = z

\* C10: on COFF every completed EmitDebugFunctionInfo(name, size) emits exactly
\* one S_GPROC32_ID record whose size fields are size, whose name is the bytes
\* of name and a zero byte, and whose 2-byte length prefix covers kind through
\* that zero byte.
C10_ProcedureRecord == [][C10_Rule]_vars

\* SwitchSection("text"); EmitSymbolDef("Foo"); EmitBlob of 2 bytes;
\* EmitDebugFunctionInfo("Foo", 2) on a COFF session
C10_Witness ==
    /\ OnCOFF
    /\ last.op = "EmitDebugFunctionInfo"
    /\ last.a = [FunctionName |-> Foo, FunctionSize |-> 2]
    /\ last.res = "ok"
    /\ out[TextSection] =
          <<SymbolAttribute(NamedSymbol(Foo), "MCSA_Global"), Label(NamedSymbol(Foo)),
            Bytes(Nops), Label(TempSymbol(0))>>
    /\ CountOf(DebugStream, IntValue(S_GPROC32_ID, 2)) = 1
    /\ CountOf(DebugStream, Bytes(Foo)) = 1
    /\ CountOf(DebugStream, IntValue(2, 4)) = 2

\* the terminate-handler (0x10) or exception-handler (0x08) flag bit of a
\* blob's first byte
HandlerBlob(BlobData) ==
    (BlobData[1] \div 8) % 2 = 1 \/ (BlobData[1] \div 16) % 2 = 1

\* the items of one kind in a stream, in order
RECURSIVE ItemsOfKind(_, _, _)
ItemsOfKind(stream, k, i) ==
    IF i > Len(stream) THEN <<>>
    ELSE (IF stream[i].k = k THEN <<stream[i]>> ELSE <<>>)
         \o ItemsOfKind(stream, k, i + 1)

\* the step only appended to section sec
AppendedTo(sec) == SubSeq(out'[sec], 1, Len(out[sec])) = out[sec]

\* a symbol no stream has bound to a label yet
Unbound(sym) ==
    \A sec \in Sections : \A i \in 1..Len(out[sec]) : out[sec][i] # Label(sym)

ImageRelative(sym) == SymbolRefExpr(sym, "VK_COFF_IMGREL32")

\* one EmitWinFrameInfo call with a non-chained blob: it completes exactly when
\* the session is COFF and a personality name comes with a handler flag, and
\* then it has appended the .xdata record and the .pdata entry in the order
\* below, the entry referring to the label the record starts with.
C11_Rule ==
    last'.op = "EmitWinFrameInfo" /\ ~ChainedBlob(last'.a.BlobData) =>
        LET a == last'.a
            xd == Appended(XDataSection)
            pd == Appended(PDataSection)
        IN  /\ (last'.res = "ok") <=>
                  (OnCOFF /\ ~(HandlerBlob(a.BlobData)
                               /\ a.PersonalityFunctionName = nullptr))
            /\ last'.res = "ok" =>
                  /\ AppendedTo(XDataSection)
                  /\ AppendedTo(PDataSection)
                  /\ \A sec \in Sections \ {XDataSection, PDataSection} :
                        out'[sec] = out[sec]
                  /\ Len(xd) >= 4
                  /\ xd[2].k = "label"
                  /\ Unbound(xd[2].sym)
                  /\ xd = <<ValueToAlignment(4, 0), Label(xd[2].sym),
                            Bytes(SubSeq(a.BlobData, 1, a.BlobSize)),
                            ValueToAlignment(4, 0)>>
                          \o (IF HandlerBlob(a.BlobData)
                                THEN <<Value(ImageRelative(
                                          NamedSymbol(a.PersonalityFunctionName)),
                                          4, FALSE)>>
                                ELSE <<>>)
                          \o (IF a.LSDASize # 0
                                THEN <<Bytes(SubSeq(a.LSDA, 1, a.LSDASize))>>
                                ELSE <<>>)
                  /\ pd = <<ValueToAlignment(4, 0),
                            Value(BinaryAdd(ImageRelative(NamedSymbol(a.FunctionName)),
                                            ConstantExpr(a.StartOffset)), 4, FALSE),
                            Value(BinaryAdd(ImageRelative(NamedSymbol(a.FunctionName)),
                                            ConstantExpr(a.EndOffset)), 4, FALSE),
                            Value(ImageRelative(xd[2].sym), 4, FALSE)>>

\* the k-th .pdata entry refers to the label of the k-th .xdata record
C11_EntriesMatchRecords ==
    LET values == ItemsOfKind(out[PDataSection], "value", 1)
        labels == ItemsOfKind(out[XDataSection], "label", 1)
    IN  /\ Len(values) % 3 = 0
        /\ Len(values) \div 3 <= Len(labels)
        /\ \A k \in 1..(Len(values) \div 3) :
              values[3 * k].expr = ImageRelative(labels[k].sym)

\* C11: every EmitWinFrameInfo call with a non-chained blob appends to .xdata
\* alignment, a fresh label, the blob, alignment, the personality reference iff
\* a handler flag is set, the LSDA iff its size is nonzero, and to .pdata the
\* three image-relative values, the third referring to that label; so the k-th
\* .pdata entry refers to the k-th .xdata record.
C11_WinFrameInfo ==
    /\ []C11_EntriesMatchRecords
    /\ [][C11_Rule]_vars

\* two frames were emitted, the second with the terminate-handler flag alone, a
\* personality routine and an LSDA
C11_Witness ==
    /\ last.op = "EmitWinFrameInfo"
    /\ last.res = "ok"
    /\ last.a.BlobData[1] = 17
    /\ last.a.LSDASize = 2
    /\ CountKind(out[XDataSection], "label") = 2
    /\ CountKind(out[XDataSection], "value") = 1
    /\ CountKind(out[PDataSection], "value") = 6

\* The records of a run of bytes, walked by their 2-byte length prefixes from
\* byte p on: each is a length, a 2-byte kind and length - 2 bytes of body, and
\* is named by its kind and its last two bytes.  Bytes that do not make up a
\* whole record show as a record of kind -1.
RECURSIVE Records(_, _)
Records(bytes, p) ==
    IF p > Len(bytes) THEN <<>>
    ELSE IF p + 3 > Len(bytes) THEN <<[kind |-> 0 - 1, tail |-> <<>>]>>
    ELSE LET len == bytes[p] + 256 * bytes[p + 1]
             end == p + 1 + len
         IN  IF len < 2 \/ end > Len(bytes) THEN <<[kind |-> 0 - 1, tail |-> <<>>]>>
             ELSE <<[kind |-> bytes[p + 2] + 256 * bytes[p + 3],
                     tail |-> SubSeq(bytes, end - 1, end)]>>
                  \o Records(bytes, end + 1)

\* the range records a variable's ranges call for, from range i on: one per
\* register or stack range, ending in the range's length, none for the other
\* kinds
RECURSIVE RangeRecords(_, _)
RangeRecords(ranges, i) ==
    IF i > Len(ranges) THEN <<>>
    ELSE LET r == ranges[i]
             length == LittleEndian((r.endOffset - r.startOffset) % (2 ^ 16), 2)
         IN  (CASE r.loc.vlType \in {"VLT_REG", "VLT_REG_FP"} ->
                     <<[kind |-> S_DEFRANGE_REGISTER, tail |-> length]>>
                [] r.loc.vlType = "VLT_STK" ->
                     <<[kind |-> S_DEFRANGE_REGISTER_REL, tail |-> length]>>
                [] OTHER -> <<>>)
             \o RangeRecords(ranges, i + 1)

\* the records the pending variables call for, from variable i on: an S_LOCAL
\* record ending in the name's last byte and its terminator, then the ranges
RECURSIVE VariableRecords(_, _)
VariableRecords(varInfos, i) ==
    IF i > Len(varInfos) THEN <<>>
    ELSE <<[kind |-> S_LOCAL,
            tail |-> <<varInfos[i].name[Len(varInfos[i].name)], 0>>]>>
         \o RangeRecords(varInfos[i].ranges, 1)
         \o VariableRecords(varInfos, i + 1)

\* the start offsets of the register and stack ranges of a range list
RECURSIVE LocatedStarts(_, _)
LocatedStarts(ranges, i) ==
    IF i > Len(ranges) THEN <<>>
    ELSE (IF ranges[i].loc.vlType \in {"VLT_REG", "VLT_REG_FP", "VLT_STK"}
            THEN <<ranges[i].startOffset>> ELSE <<>>)
         \o LocatedStarts(ranges, i + 1)

RECURSIVE VariableStarts(_, _)
VariableStarts(varInfos, i) ==
    IF i > Len(varInfos) THEN <<>>
    ELSE LocatedStarts(varInfos[i].ranges, 1) \o VariableStarts(varInfos, i + 1)

\* the start offsets the range records of a stream are relocated by, in order
RECURSIVE RangeStarts(_, _)
RangeStarts(items, i) ==
    IF i > Len(items) THEN <<>>
    ELSE (IF items[i].k = "secrel32value" THEN <<items[i].expr.r.c>> ELSE <<>>)
         \o RangeStarts(items, i + 1)

\* positions of the labels among the items, in order
RECURSIVE LabelPositions(_, _)
LabelPositions(items, i) ==
    IF i > Len(items) THEN <<>>
    ELSE (IF items[i].k = "label" THEN <<i>> ELSE <<>>) \o LabelPositions(items, i + 1)

\* the items a step put between the last two labels it bound in the debug
\* section: after the procedure-start record, before the subsection's end
VariableItems ==
    LET new == Appended(COFFDebugSymbolsSection) IN
    IF \E at \in {LabelPositions(new, 1)} :
          /\ Len(at) >= 4
          /\ new[at[Len(at) - 1] - 1] = IntValue(0, 1)
      THEN LET at == LabelPositions(new, 1)
           IN  SubSeq(new, at[Len(at) - 1] + 1, at[Len(at)] - 1)
      ELSE <<>>

\* A completed EmitDebugFunctionInfo call on COFF: what lies between the end
\* of the procedure-start record and the end of the subsection is, record by
\* record, what the pending variables call for and then the procedure-end
\* record; the pending list is empty afterwards.  No call but EmitDebugVar and
\* EmitDebugFunctionInfo touches the pending list.
C12_Rule ==
    /\ FunctionInfoCompletes /\ OnCOFF =>
          /\ \A body \in {VariableItems} :
                /\ \A bytes \in {FlatBytes(body, 1)} :
                      Records(bytes, 1)
                         = VariableRecords(DebugVarInfos, 1)
                           \o <<[kind |-> S_PROC_ID_END,
                                 tail |-> LittleEndian(S_PROC_ID_END, 2)]>>
                /\ RangeStarts(body, 1) = VariableStarts(DebugVarInfos, 1)
          /\ DebugVarInfos' = <<>>
    /\ last'.op \notin {"EmitDebugVar", "EmitDebugFunctionInfo"} =>
          DebugVarInfos' = DebugVarInfos

\* C12: on COFF a completed EmitDebugFunctionInfo emits, between the
\* procedure-start and the procedure-end record, one S_LOCAL record per pending
\* variable in EmitDebugVar order, each followed by one range record per
\* register or stack range in range order and none for other kinds, and leaves
\* the pending list empty, so a later function's records hold none of them.
C12_LocalRecords == [][C12_Rule]_vars

\* a variable with a stack, a floating-point-stack and a register range was
\* reported, its function emitted (the register range starts at 6), and a
\* second function emitted after it with no variable record
C12_Witness ==
    /\ OnCOFF
    /\ last.op = "EmitDebugFunctionInfo"
    /\ last.res = "ok"
    /\ FuncId = 3
    /\ DebugVarInfos = <<>>
    /\ CountOf(DebugStream, IntValue(S_LOCAL, 2)) = 1
    /\ CountOf(DebugStream, IntValue(S_DEFRANGE_REGISTER, 2)) = 1
    /\ CountOf(DebugStream, IntValue(S_DEFRANGE_REGISTER_REL, 2)) = 1
    /\ CountOf(DebugStream,
               COFFSecRel32Value(BinaryAdd(SymbolRefExpr(NamedSymbol(Foo), "VK_None"),
                                           ConstantExpr(6)))) = 1

\* the line-number-table directives of a stream, in order
Linetables(stream) == ItemsOfKind(stream, "cv_linetable", 1)

\* the function ids of the source-location directives of all sections
LocIds(streams) ==
    UNION {{streams[sec][i].FunctionId :
               i \in {j \in 1..Len(streams[sec]) : streams[sec][j].k = "cv_loc"}} :
           sec \in Sections}

\* An EmitDebugLoc call that emits, made after k - 1 completed
\* EmitDebugFunctionInfo calls, appends one location directive with id k, an id
\* no line-number table emitted so far carries; the k-th completed
\* EmitDebugFunctionInfo call passes k to its line-number-table directive.
C13_Rule ==
    /\ last'.op = "EmitDebugLoc" /\ last'.res = "ok" /\ OnCOFF =>
          \A done \in {Linetables(DebugStream)} :
             /\ Appended(curSection) =
                   <<CVLocDirective(Len(done) + 1, last'.a.FileId, last'.a.LineNumber,
                                    last'.a.ColNumber)>>
             /\ curSection' = curSection
             /\ \A i \in 1..Len(done) : done[i].FunctionId # Len(done) + 1
    /\ FunctionInfoCompletes /\ OnCOFF =>
          \A done \in {Linetables(DebugStream)} :
             \A now \in {Linetables(out'[COFFDebugSymbolsSection])} :
                /\ Len(now) = Len(done) + 1
                /\ SubSeq(now, 1, Len(done)) = done
                /\ now[Len(now)].FunctionId = Len(now)

\* on COFF the line-number tables carry the ids 1, 2, ... in order and every
\* location carries the id of an emitted function or of the next one
C13_IdsInOrder ==
    OnCOFF =>
        \A done \in {Linetables(DebugStream)} :
           /\ \A k \in 1..Len(done) : done[k].FunctionId = k
           /\ LocIds(out) \subseteq 1..(Len(done) + 1)
           /\ FuncId = Len(done) + 1

\* C13: on COFF every location EmitDebugLoc emits between the (k-1)-th and the
\* k-th completed EmitDebugFunctionInfo call carries id k, the id that k-th
\* call passes to the line-number-table directive, and never the id of a
\* function whose line-number table was already emitted.
C13_LocationIds ==
    /\ []C13_IdsInOrder
    /\ [][C13_Rule]_vars

\* a location was emitted for a first function, that function finalized, a
\* location emitted for a second function, and the second function finalized
C13_Witness ==
    /\ OnCOFF
    /\ last.op = "EmitDebugFunctionInfo"
    /\ last.res = "ok"
    /\ LocIds(out) = {1, 2}
    /\ Len(Linetables(DebugStream)) = 2
    /\ FuncId = 3

\* positions of the debug stream at which a Symbols subsection starts: its
\* kind, then its length (SymbolsEnd - SymbolsBegin), then the SymbolsBegin label
SubsectionStarts(stream) ==
    {i \in 1..(Len(stream) - 2) :
        /\ stream[i] = IntValue(ModuleSubstreamKind_Symbols, 4)
        /\ stream[i + 1].k = "value"
        /\ stream[i + 1].size = 4
        /\ stream[i + 2] = Label(stream[i + 1].expr.r.sym)}

\* positions of the padding steps that follow a subsection's end label
SubsectionPaddings(stream) ==
    {i \in 2..Len(stream) :
        /\ stream[i] = ValueToAlignment(4, 0)
        /\ stream[i - 1].k = "label"}

\* the section's write offset after the padding that follows each subsection's
\* end label is a multiple of 4
C14_PaddedAfter ==
    OnCOFF =>
        \A stream \in {DebugStream} :
           \A i \in SubsectionPaddings(stream) : OffsetAt(stream, i + 1) % 4 = 0

\* C14: on COFF every Symbols subsection EmitDebugFunctionInfo wrote starts at
\* a 4-byte-aligned offset of the debug section, and the write offset is a
\* multiple of 4 after the padding that follows each subsection's end label.
C14_AsStated ==
    OnCOFF =>
        \A stream \in {DebugStream} :
           /\ \A i \in SubsectionStarts(stream) : OffsetAt(stream, i) % 4 = 0
           /\ \A i \in SubsectionPaddings(stream) : OffsetAt(stream, i + 1) % 4 = 0

\* Items that put bytes into their section.  Labels and symbol attributes
\* occupy nothing; .cv_file and .cv_loc only record a file or a line for the
\* tables emitted later; the file checksums table is left out when no file
\* was recorded.  Everything else, the string table directive included,
\* writes.
WritesBytes(item) ==
    item.k \notin {"label", "attr", "cv_file", "cv_loc", "cv_filechecksums"}

\* the items of a stream that write bytes, from item i on
RECURSIVE Written(_, _)
Written(stream, i) ==
    IF i > Len(stream) THEN <<>>
    ELSE (IF WritesBytes(stream[i]) THEN <<stream[i]>> ELSE <<>>)
         \o Written(stream, i + 1)

\* C15: on COFF, whenever the debug section holds bytes, its first 4 bytes are
\* the debug section magic, whatever the order of EmitDebugFunctionInfo and
\* EmitDebugModuleInfo calls.
C15_AsStated ==
    OnCOFF =>
        \A written \in {Written(DebugStream, 1)} :
           written # <<>> => written[1] = IntValue(DEBUG_SECTION_MAGIC, 4)

\* what the code does: the magic leads the debug section when the first call
\* that writes to it is EmitDebugFunctionInfo
C15_MagicLeadsFunctions ==
    OnCOFF =>
        \A written \in {Written(DebugStream, 1)} :
           (written # <<>> /\ written[1] # CVStringTableDirective)
              => written[1] = IntValue(DEBUG_SECTION_MAGIC, 4)

====
